---- MODULE Spec2Model ----
(***************************************************************************)
(* Futures contract resolver and window statistics of the market           *)
(* dashboard.                                                              *)
(*                                                                         *)
(*   batch resolver       src/market_dashboard/pages/Term_Structure_Viewer.py *)
(*   sequential resolver  src/term_structure_viewer.py                     *)
(*   window statistics    src/market_dashboard/pages/Daily_Performance.py  *)
(*   range segment        src/market_dashboard/pages/Daily_Performance.py  *)
(*   incremental cache    src/market_dashboard/pages/data_utils.py         *)
(*   front dollar future  src/balanced_dashboard/pages/Term_Structure_Viewer.py *)
(*                                                                         *)
(* Ticker symbols are strings and are built by concatenation, as the code  *)
(* builds them.  A Python dict is a record together with the set of keys   *)
(* it holds.  A price is a natural number; NaN and None are the two        *)
(* negative markers below.  A call that raises is a result with            *)
(* raised = TRUE.                                                          *)
(***************************************************************************)
EXTENDS Integers, Sequences, FiniteSets, TLC

VARIABLES
    today,        \* datetime.today() of the term structure pages: [year, month]
    asset_sel,     \* the asset name handed to resolve_contracts
    price_lookup,  \* fetch_last_prices(...): ticker -> price or NaN, absent when not returned
    rows,         \* resolve_contracts(asset, prices_dict) of the batch page
    rows_seq,     \* resolve_contracts(asset) of the sequential page
    spec_in,      \* the spec dict handed to candidate_tickers
    horizon,      \* the max_months handed to candidate_tickers
    tickers,      \* candidate_tickers(spec_in, max_months)
    composed,     \* one compose_ticker call: its arguments and its result
    today_ts,     \* pd.Timestamp.today().normalize() of the performance page, in days
    series_in,     \* the price series handed to window_stats: <<timestamp, price>> pairs
    days_in,       \* the horizon handed to window_stats
    stats,        \* window_stats(series, days)
    seg_in,       \* the arguments of segment: [min_px, last_px, max_px, width]
    seg,          \* segment(min_px, last_px, max_px, width), as the pieces of the string
    cache_file,   \* the parquet file of one ticker in cache_dir: whether it exists, and its rows
    load,         \* the last load_incremental_data call: its end, its download and its result
    delivered,    \* for every timestamp the value the data source delivered for it
                  \* last, and a timestamp whose value the last delivery replaced
    dx_source,    \* what yf.download answers for the Dollar Index symbols
    dx_front,     \* fetch_front_dollar_fut(): (series, used_ticker)
    pc            \* where the run stands

vars == <<today, asset_sel, price_lookup, rows, rows_seq, spec_in, horizon,
          tickers, composed, today_ts, series_in, days_in, stats, seg_in, seg,
          cache_file, load, delivered, dx_source, dx_front, pc>>

cache_vars == <<cache_file, load, delivered>>
front_vars == <<dx_source, dx_front>>

-----------------------------------------------------------------------------
(* Bounds of the model *)

\* first year the pages are run in
FirstYear == 2025
\* candidate_tickers is called with max_months in 0..MaxHorizon (and the two
\* century horizons below)
MaxHorizon == 19
\* contract months, counted from the nearest one, the data source may hold data for
NDataMonths == 3
\* entries fetch_last_prices may return
MaxData == 3

\* np.nan and None
NaN == 0 - 1
None == 0 - 2

\* pd.isna
isna(x) == x = NaN

-----------------------------------------------------------------------------
(* Helpers *)

MONTH_CODE == <<"F", "G", "H", "J", "K", "M", "N", "Q", "U", "V", "X", "Z">>

\* "x in lst" for a Python list
InList(x, lst) == \E i \in 1..Len(lst) : lst[i] = x

\* "k in spec" for a Python dict
HasKey(spec, k) == k \in spec.keys

DX_SPEC ==
    [keys |-> {"root", "suffixes", "months", "front_ticker"},
     root |-> "DX", suffix |-> "", suffixes |-> <<".NYB", ".NYBOT", ".ICE", ".CBT">>,
     months |-> <<3, 6, 9, 12>>, front_ticker |-> "DX=F"]

GC_SPEC ==
    [keys |-> {"root", "suffix", "months", "front_ticker"},
     root |-> "GC", suffix |-> ".CMX", suffixes |-> <<>>,
     months |-> <<2, 4, 6, 8, 10, 12>>, front_ticker |-> "GC=F"]

CL_SPEC ==
    [keys |-> {"root", "suffix", "months", "front_ticker"},
     root |-> "CL", suffix |-> ".NYM", suffixes |-> <<>>,
     months |-> <<1, 2, 3, 4, 5, 6, 7, 8, 9, 10, 11, 12>>, front_ticker |-> "CL=F"]

ASSET_SPECS ==
    ("US Dollar Index" :> DX_SPEC) @@ ("Gold" :> GC_SPEC) @@ ("WTI Crude" :> CL_SPEC)

\* str.format of "{yy:02d}" for 0 <= yy < 100
DIGITS == <<"0", "1", "2", "3", "4", "5", "6", "7", "8", "9">>
format_02d(yy) == DIGITS[(yy \div 10) + 1] \o DIGITS[(yy % 10) + 1]

\* the same with the months of a year counted backwards
months_ahead_swapped(max_months) ==
    [i \in 1..max_months |->
        LET k == today.month - 1 + (i - 1)
        IN  <<today.year + (k \div 12), 12 - (k % 12)>>]
\* months_ahead: the (year, month) pairs of max_months months from today on
months_ahead(max_months) ==
    [i \in 1..max_months |->
        LET k == today.month - 1 + (i - 1)
        IN  <<today.year + (k \div 12), (k % 12) + 1>>]

\* the same with the year before the month code
compose_ticker_year_first(root, year, month, suffix) ==
    root \o format_02d(year % 100) \o MONTH_CODE[month] \o suffix
\* compose_ticker: root, month code, two-digit year, suffix
compose_ticker(root, year, month, suffix) ==
    LET yy   == year % 100
        code == MONTH_CODE[month]
    IN  root \o code \o format_02d(yy) \o suffix

\* One appended candidate: the ticker string the code appends, with the loop
\* variables (yy, mm, sfx) it was composed from.
Cand(root, yy, mm, sfx) ==
    [tkr |-> compose_ticker(root, yy, mm, sfx), year |-> yy, month |-> mm, sfx |-> sfx]

Returned(v) == [raised |-> FALSE, value |-> v]
KeyError == [raised |-> TRUE, value |-> <<>>]

\* the body of candidate_tickers' loop for one (yy, mm): what it appends
month_tickers(spec, yy, mm) ==
    IF ~InList(mm, spec.months) THEN Returned(<<>>)
    ELSE IF HasKey(spec, "root") /\ spec.root = "DX" THEN
        LET sfxs == IF HasKey(spec, "suffixes") THEN spec.suffixes ELSE <<>>
        IN  Returned([j \in 1..Len(sfxs) |-> Cand(spec.root, yy, mm, sfxs[j])])
    ELSE IF ~HasKey(spec, "suffix") THEN KeyError
    ELSE Returned(<<Cand(spec.root, yy, mm, spec.suffix)>>)

\* candidate_tickers' loop over ms[lo..hi], left to right: the tickers appended,
\* or the KeyError of the first iteration that raises.  The range is split in
\* halves, the left half running first, so that the evaluation stays shallow.
RECURSIVE candidate_loop(_, _, _, _)
candidate_loop(spec, ms, lo, hi) ==
    IF lo > hi THEN Returned(<<>>)
    ELSE IF lo = hi THEN month_tickers(spec, ms[lo][1], ms[lo][2])
    ELSE LET mid   == (lo + hi) \div 2
             left  == candidate_loop(spec, ms, lo, mid)
             right == candidate_loop(spec, ms, mid + 1, hi)
         IN  IF left.raised \/ right.raised THEN KeyError
             ELSE Returned(left.value \o right.value)

candidate_tickers(spec, max_months) ==
    LET ms == months_ahead(max_months)
    IN  candidate_loop(spec, ms, 1, Len(ms))

\* the ticker strings candidate_tickers returns
TickerList(cands) == [i \in 1..Len(cands) |-> cands[i].tkr]

-----------------------------------------------------------------------------
(* candidate_tickers and compose_ticker as functions of their arguments *)

\* a spec with several suffix variants whose root is not DX, configured the way
\* the DX entry is, and the same with a "suffix" key as well
ZN_SPEC ==
    [keys |-> {"root", "suffixes", "months", "front_ticker"},
     root |-> "ZN", suffix |-> "", suffixes |-> <<".CBT", ".CME">>,
     months |-> <<3, 6, 9, 12>>, front_ticker |-> "ZN=F"]
ZB_SPEC ==
    [keys |-> {"root", "suffix", "suffixes", "months", "front_ticker"},
     root |-> "ZB", suffix |-> ".CBT", suffixes |-> <<".CBT", ".CME">>,
     months |-> <<3, 6, 9, 12>>, front_ticker |-> "ZB=F"]

ConfiguredSpecs == {ASSET_SPECS[a] : a \in DOMAIN ASSET_SPECS}
InputSpecs == ConfiguredSpecs \cup {ZN_SPEC, ZB_SPEC}

Todays == {[year |-> y, month |-> m] : y \in {FirstYear}, m \in 1..12}

\* the number of months after which the two-digit year of a ticker repeats
CenturyMonths == 100 * 12
Horizons == (0..MaxHorizon) \cup {CenturyMonths, CenturyMonths + 1}

ComposeRoots == {"CL", "DX"}
ComposeYears == {1999, 2000, 2005, 2025, 2100}
ComposeSuffixes == {".NYM", ""}

NoCompose == [root |-> "", year |-> 0, month |-> 0, suffix |-> "", tkr |-> ""]

NoSegment == [min_px |-> None, last_px |-> None, max_px |-> None, width |-> 0]

\* timestamps of the cached rows lie in 1..MaxCacheTs
MaxCacheTs == 2
\* values of the cached rows lie in 1..MaxVal
MaxVal == 2

CacheDays == 1..MaxCacheTs

\* no parquet file, no call yet, nothing delivered yet
NoFile == [exists |-> FALSE, df |-> <<>>]
NoDownload == [called |-> FALSE, start |-> 0, end |-> 0, outcome |-> "none"]
NoLoad == [end |-> 0, download |-> NoDownload, df |-> <<>>, wrote |-> FALSE]
NeverDelivered == [value |-> [t \in CacheDays |-> 0], replaced |-> 0]

\* fetch_front_dollar_fut not called yet
NotFetched == [series |-> <<>>, symbol |-> ""]

InitNoCache ==
    /\ cache_file = NoFile
    /\ load = NoLoad
    /\ delivered = NeverDelivered
    /\ dx_source = <<>>
    /\ dx_front = NotFetched

InitOther ==
    /\ asset_sel = "Gold"
    /\ price_lookup = <<>>
    /\ rows = <<>>
    /\ rows_seq = <<>>
    /\ today_ts = 0
    /\ series_in = <<>>
    /\ days_in = 0
    /\ stats = <<>>
    /\ InitNoCache
    /\ seg_in = NoSegment
    /\ seg = <<>>

InitEnum ==
    /\ today \in Todays
    /\ spec_in \in InputSpecs
    /\ horizon \in Horizons
    /\ tickers = Returned(<<>>)
    /\ composed = NoCompose
    /\ pc = "input"
    /\ InitOther

Enumerate ==
    /\ pc = "input"
    /\ tickers' = candidate_tickers(spec_in, horizon)
    /\ pc' = "enumerated"
    /\ UNCHANGED <<cache_vars, front_vars, today, asset_sel, price_lookup, rows, rows_seq, spec_in, horizon,
                   composed, today_ts, series_in, days_in, stats,
                   seg_in, seg>>

Compose ==
    /\ pc = "input"
    /\ horizon = 0
    /\ \E root \in ComposeRoots, year \in ComposeYears, month \in 1..12,
          suffix \in ComposeSuffixes :
          composed' = [root |-> root, year |-> year, month |-> month, suffix |-> suffix,
                       tkr |-> compose_ticker(root, year, month, suffix)]
    /\ pc' = "composed"
    /\ UNCHANGED <<cache_vars, front_vars, today, asset_sel, price_lookup, rows, rows_seq, spec_in, horizon,
                   tickers, today_ts, series_in, days_in, stats,
                   seg_in, seg>>

NextEnum == Enumerate \/ Compose

SpecEnum == InitEnum /\ [][NextEnum]_vars

-----------------------------------------------------------------------------
(* The two resolvers *)

DEFAULT_MAX_MONTHS == 18

Row(asset, label, tkr, px) ==
    [Asset |-> asset, Contract |-> label, Ticker |-> tkr, Price |-> px]

\* rows appended for the accepted (ticker, price) pairs: Back, then Back+1
label_backs(asset, backs) ==
    [i \in 1..Len(backs) |->
        Row(asset, IF i = 1 THEN "Back" ELSE "Back+1", backs[i][1], backs[i][2])]

\* batch page: the loop over candidate_tickers(spec) from index i on
RECURSIVE scan_backs(_, _, _, _)
scan_backs(tkrs, prices_dict, i, backs) ==
    IF i > Len(tkrs) THEN backs
    ELSE LET tkr == tkrs[i]
             acc == IF tkr \in DOMAIN prices_dict /\ ~isna(prices_dict[tkr])
                    THEN Append(backs, <<tkr, prices_dict[tkr]>>)
                    ELSE backs
         IN  IF Len(acc) >= 2 THEN acc
             ELSE scan_backs(tkrs, prices_dict, i + 1, acc)

\* batch page: the Front row, if any
front_rows(asset, spec, prices_dict) ==
    IF HasKey(spec, "front_ticker") /\ spec.front_ticker # ""
          /\ spec.front_ticker \in DOMAIN prices_dict
    THEN <<Row(asset, "Front", spec.front_ticker, prices_dict[spec.front_ticker])>>
    ELSE <<>>

\* the same with the limit of 2 counting the Front row as well
resolve_contracts_front_counts(asset, prices_dict) ==
    LET spec  == ASSET_SPECS[asset]
        front == front_rows(asset, spec, prices_dict)
        backs == scan_backs(TickerList(candidate_tickers(spec, DEFAULT_MAX_MONTHS).value),
                            prices_dict, 1, <<>>)
    IN  SubSeq(front \o label_backs(asset, backs), 1,
               IF Len(front) + Len(backs) > 2 THEN 2 ELSE Len(front) + Len(backs))
\* batch page: resolve_contracts(asset, prices_dict)
resolve_contracts(asset, prices_dict) ==
    LET spec  == ASSET_SPECS[asset]
        front == front_rows(asset, spec, prices_dict)
        backs == scan_backs(TickerList(candidate_tickers(spec, DEFAULT_MAX_MONTHS).value),
                            prices_dict, 1, <<>>)
    IN  front \o label_backs(asset, backs)

\* sequential page: last_close(ticker), the last close the data source holds for
\* the ticker, None when it holds none
last_close(ticker) ==
    IF ticker \in DOMAIN price_lookup /\ ~isna(price_lookup[ticker])
    THEN price_lookup[ticker]
    ELSE None

\* sequential page: what one iteration of find_back_months appends for (yy, mm)
month_hit(spec, yy, mm) ==
    IF ~InList(mm, spec.months) THEN <<>>
    ELSE IF HasKey(spec, "root") /\ spec.root = "DX" THEN
        LET sfxs == IF HasKey(spec, "suffixes") THEN spec.suffixes ELSE <<>>
            hits == {j \in 1..Len(sfxs) :
                        last_close(compose_ticker(spec.root, yy, mm, sfxs[j])) # None}
        IN  IF hits = {} THEN <<>>
            ELSE LET j   == CHOOSE h \in hits : \A g \in hits : h <= g
                     tkr == compose_ticker(spec.root, yy, mm, sfxs[j])
                 IN  <<(<<tkr, last_close(tkr)>>)>>
    ELSE LET tkr == compose_ticker(spec.root, yy, mm, spec.suffix)
         IN  IF last_close(tkr) # None THEN <<(<<tkr, last_close(tkr)>>)>> ELSE <<>>

\* sequential page: find_back_months' loop over months_ahead(18) from index i on
RECURSIVE find_loop(_, _, _, _, _)
find_loop(spec, need, ms, i, found) ==
    IF i > Len(ms) THEN found
    ELSE LET acc == found \o month_hit(spec, ms[i][1], ms[i][2])
         IN  IF Len(acc) >= need THEN acc
             ELSE find_loop(spec, need, ms, i + 1, acc)

find_back_months(spec, need) ==
    find_loop(spec, need, months_ahead(DEFAULT_MAX_MONTHS), 1, <<>>)

\* sequential page: resolve_contracts(asset)
resolve_contracts_seq(asset) ==
    LET spec        == ASSET_SPECS[asset]
        front_price == IF HasKey(spec, "front_ticker") /\ spec.front_ticker # ""
                       THEN last_close(spec.front_ticker) ELSE None
        front       == IF front_price # None
                       THEN <<Row(asset, "Front", spec.front_ticker, front_price)>>
                       ELSE <<>>
        backs       == find_back_months(spec, 2)
    IN  front \o label_backs(asset, backs)

-----------------------------------------------------------------------------
(* One run of the term structure pages: the data source answers, then each *)
(* page resolves the selected asset.                                       *)

\* the candidates of the asset, with the loop variables they were composed from
Candidates(asset) == candidate_tickers(ASSET_SPECS[asset], DEFAULT_MAX_MONTHS).value

\* the tickers the data source may hold data for: the continuous front symbol
\* and, for each of the nearest NDataMonths contract months, the first and the
\* last declared suffix variant (every contract month has the same number of
\* candidates)
DataTickers(asset) ==
    LET cands == Candidates(asset)
        spec  == ASSET_SPECS[asset]
        nvar  == IF HasKey(spec, "suffixes") THEN Len(spec.suffixes) ELSE 1
        keep  == {i \in 1..Len(cands) :
                     /\ (i - 1) \div nvar < NDataMonths
                     /\ (i - 1) % nvar \in {0, nvar - 1}}
    IN  <<spec.front_ticker>> \o
        TickerList(SelectSeq([i \in 1..Len(cands) |-> [cands[i] EXCEPT !.year = i]],
                             LAMBDA c : c.year \in keep))

\* the price the data source quotes for the i-th of these tickers: no two
\* tickers share one
QuotedPrice(i) == 100 + i

Init ==
    /\ today \in Todays
    /\ asset_sel \in DOMAIN ASSET_SPECS
    /\ price_lookup = <<>>
    /\ rows = <<>>
    /\ rows_seq = <<>>
    /\ pc = "fetch"
    /\ spec_in = ASSET_SPECS[asset_sel]
    /\ horizon = DEFAULT_MAX_MONTHS
    /\ tickers = Returned(<<>>)
    /\ composed = NoCompose
    /\ today_ts = 0
    /\ series_in = <<>>
    /\ days_in = 0
    /\ stats = <<>>
    /\ InitNoCache
    /\ seg_in = NoSegment
    /\ seg = <<>>

\* the data source returns a last close, or NaN, for one more ticker
Quote ==
    /\ pc = "fetch"
    /\ Cardinality(DOMAIN price_lookup) < MaxData
    /\ LET data == DataTickers(asset_sel)
       IN  \E i \in 1..Len(data) :
              /\ data[i] \notin DOMAIN price_lookup
              /\ \E px \in {NaN, QuotedPrice(i)} :
                    price_lookup' = (data[i] :> px) @@ price_lookup
    /\ UNCHANGED <<cache_vars, front_vars, today, asset_sel, rows, rows_seq, spec_in, horizon, tickers,
                   composed, today_ts, series_in, days_in, stats,
                   seg_in, seg, pc>>

BatchDone == pc \in {"batch", "both"}
SeqDone == pc \in {"seq", "both"}

\* the batch page resolves the selected asset
ResolveBatch ==
    /\ pc \in {"fetch", "seq"}
    /\ rows' = resolve_contracts(asset_sel, price_lookup)
    /\ pc' = IF pc = "fetch" THEN "batch" ELSE "both"
    /\ UNCHANGED <<cache_vars, front_vars, today, asset_sel, price_lookup, rows_seq, spec_in, horizon, tickers,
                   composed, today_ts, series_in, days_in, stats,
                   seg_in, seg>>

\* the sequential page resolves the selected asset
ResolveSeq ==
    /\ pc \in {"fetch", "batch"}
    /\ rows_seq' = resolve_contracts_seq(asset_sel)
    /\ pc' = IF pc = "fetch" THEN "seq" ELSE "both"
    /\ UNCHANGED <<cache_vars, front_vars, today, asset_sel, price_lookup, rows, spec_in, horizon, tickers,
                   composed, today_ts, series_in, days_in, stats,
                   seg_in, seg>>

Next == Quote \/ ResolveBatch \/ ResolveSeq

Spec == Init /\ [][Next]_vars

-----------------------------------------------------------------------------
(* Window statistics of the performance page.  A series is a sequence of   *)
(* <<timestamp, price>> pairs, timestamps in days and strictly increasing, *)
(* as fetch_all_tickers and dropna() leave it; a quotient is kept exact,   *)
(* as numerator and denominator.                                           *)

\* the same without the entries on the bound
since_after(series, bound) == SelectSeq(series, LAMBDA e : e[1] > bound)

\* series.loc[series.index >= bound]
since(series, bound) == SelectSeq(series, LAMBDA e : e[1] >= bound)

RECURSIVE seq_min(_), seq_max(_), seq_sum(_), seq_prod(_)
seq_min(xs) ==
    IF Len(xs) = 1 THEN xs[1]
    ELSE LET m == seq_min(Tail(xs)) IN IF xs[1] < m THEN xs[1] ELSE m
seq_max(xs) ==
    IF Len(xs) = 1 THEN xs[1]
    ELSE LET m == seq_max(Tail(xs)) IN IF xs[1] > m THEN xs[1] ELSE m
seq_sum(xs) == IF Len(xs) = 0 THEN 0 ELSE xs[1] + seq_sum(Tail(xs))
seq_prod(xs) == IF Len(xs) = 0 THEN 1 ELSE xs[1] * seq_prod(Tail(xs))

values(win) == [i \in 1..Len(win) |-> win[i][2]]

\* win.pct_change() without its first entry, which is always NaN: entry i is
\* win[i+1] / win[i] - 1, NaN for 0/0 and infinite for x/0
pct_change(win) ==
    [i \in 1..(Len(win) - 1) |->
        LET prev == win[i][2]
            cur  == win[i + 1][2]
        IN  IF prev = 0
            THEN [kind |-> IF cur = 0 THEN "nan" ELSE "inf", num |-> 0, den |-> 1]
            ELSE [kind |-> "num", num |-> cur - prev, den |-> prev]]

dropna(rets) == SelectSeq(rets, LAMBDA r : r.kind # "nan")

\* a float that is the result of a division, kept as num / den
Quot(num, den) == [num |-> num, den |-> den]

\* the float NaN as a quotient
NaNQ == Quot(0, 0)

isnan(q) == q.den = 0

\* the same with the population (n) denominator
std_population(rets) ==
    IF Len(rets) < 2 \/ \E i \in 1..Len(rets) : rets[i].kind = "inf" THEN NaNQ
    ELSE LET n  == Len(rets)
             D  == seq_prod([i \in 1..n |-> rets[i].den])
             R  == [i \in 1..n |-> rets[i].num * (D \div rets[i].den)]
             S1 == seq_sum(R)
             S2 == seq_sum([i \in 1..n |-> R[i] * R[i]])
         IN  Quot(n * S2 - S1 * S1, n * n * D * D)

\* rets.std(), the sample (n - 1) standard deviation, as its square; NaN for
\* fewer than 2 returns or an infinite one
std(rets) ==
    IF Len(rets) < 2 \/ \E i \in 1..Len(rets) : rets[i].kind = "inf" THEN NaNQ
    ELSE LET n  == Len(rets)
             D  == seq_prod([i \in 1..n |-> rets[i].den])
             R  == [i \in 1..n |-> rets[i].num * (D \div rets[i].den)]
             S1 == seq_sum(R)
             S2 == seq_sum([i \in 1..n |-> R[i] * R[i]])
         IN  Quot(n * S2 - S1 * S1, n * (n - 1) * D * D)

Stats(start, last, ret, mn, mx, ann_vol) ==
    [start |-> start, last |-> last, ret |-> ret, mn |-> mn, mx |-> mx,
     ann_vol |-> ann_vol]

\* the same with an empty window answered by the last price of the series
window_stats_stale(series, days) ==
    IF Len(series) = 0 THEN Stats(NaN, NaN, NaNQ, NaN, NaN, NaNQ)
    ELSE LET win == since(series, today_ts - days)
             v   == IF Len(win) > 0 THEN win[Len(win)][2] ELSE series[Len(series)][2]
         IN  Stats(v, v, NaNQ, v, v, NaNQ)

\* the same with a flat return and a flat volatility for a single entry
window_stats_flat(series, days) ==
    IF Len(series) = 0 THEN Stats(NaN, NaN, NaNQ, NaN, NaN, NaNQ)
    ELSE LET win == since(series, today_ts - days)
         IN  IF Len(win) = 0 THEN Stats(NaN, NaN, NaNQ, NaN, NaN, NaNQ)
             ELSE LET v == win[Len(win)][2]
                  IN  Stats(v, v, Quot(0, 1), v, v, Quot(0, 1))

\* the same with the return taken as last / start * 100
window_stats_ratio(series, days) ==
    IF Len(series) = 0 THEN Stats(NaN, NaN, NaNQ, NaN, NaN, NaNQ)
    ELSE LET win == since(series, today_ts - days)
         IN  IF Len(win) = 0 \/ Len(win) < 2
             THEN LET v == IF Len(win) > 0 THEN win[Len(win)][2] ELSE NaN
                  IN  Stats(v, v, NaNQ, v, v, NaNQ)
             ELSE LET start   == win[1][2]
                      last    == win[Len(win)][2]
                      ret     == IF start # 0 THEN Quot(last * 100, start) ELSE NaNQ
                      rets    == dropna(pct_change(win))
                      ann_vol == IF Len(rets) # 0 THEN std(rets) ELSE NaNQ
                  IN  Stats(start, last, ret, seq_min(values(win)),
                            seq_max(values(win)), ann_vol)

\* the same with a return of zero for a start of zero
window_stats_zero_start(series, days) ==
    IF Len(series) = 0 THEN Stats(NaN, NaN, NaNQ, NaN, NaN, NaNQ)
    ELSE LET win == since(series, today_ts - days)
         IN  IF Len(win) = 0 \/ Len(win) < 2
             THEN LET v == IF Len(win) > 0 THEN win[Len(win)][2] ELSE NaN
                  IN  Stats(v, v, NaNQ, v, v, NaNQ)
             ELSE LET start   == win[1][2]
                      last    == win[Len(win)][2]
                      ret     == IF start # 0 THEN Quot((last - start) * 100, start)
                                 ELSE Quot(0, 1)
                      rets    == dropna(pct_change(win))
                      ann_vol == IF Len(rets) # 0 THEN std(rets) ELSE NaNQ
                  IN  Stats(start, last, ret, seq_min(values(win)),
                            seq_max(values(win)), ann_vol)

\* window_stats(series, days): (start, last, ret, mn, mx, ann_vol); ret is
\* (last / start - 1) * 100 as num / den, ann_vol is std * sqrt(252) * 100 with
\* std given by its square
window_stats(series, days) ==
    IF Len(series) = 0 THEN Stats(NaN, NaN, NaNQ, NaN, NaN, NaNQ)
    ELSE LET win == since(series, today_ts - days)
         IN  IF Len(win) = 0 \/ Len(win) < 2
             THEN LET v == IF Len(win) > 0 THEN win[Len(win)][2] ELSE NaN
                  IN  Stats(v, v, NaNQ, v, v, NaNQ)
             ELSE LET start   == win[1][2]
                      last    == win[Len(win)][2]
                      ret     == IF start # 0
                                 THEN Quot((last - start) * 100, start)
                                 ELSE NaNQ
                      mn      == seq_min(values(win))
                      mx      == seq_max(values(win))
                      rets    == dropna(pct_change(win))
                      ann_vol == IF Len(rets) # 0 THEN std(rets) ELSE NaNQ
                  IN  Stats(start, last, ret, mn, mx, ann_vol)

\* timestamps of the series lie in 1..MaxTs
MaxTs == 4
\* entries of a series
MaxLen == 3
\* prices of a series lie in 0..MaxPx
MaxPx == 2
\* horizons lie in 0..MaxDays, and one negative horizon
MaxDays == 3

RECURSIVE SeriesOver(_)
\* the series whose timestamps are exactly the set ts
SeriesOver(ts) ==
    IF ts = {} THEN {<<>>}
    ELSE LET t == CHOOSE x \in ts : \A y \in ts : y <= x
         IN  {Append(s, <<t, px>>) : s \in SeriesOver(ts \ {t}), px \in 0..MaxPx}

AllSeries ==
    UNION {SeriesOver(ts) : ts \in {x \in SUBSET (1..MaxTs) : Cardinality(x) <= MaxLen}}

\* two prices ten days apart, a day ten days after the first of them, and a
\* horizon of ten days
TwoPoints == <<<<0, 100>>, <<10, 110>>>>
TenDays == {10}

\* the days pd.Timestamp.today().normalize() can give
Clock == (2..MaxTs) \cup TenDays

InitWin ==
    /\ today_ts \in Clock
    /\ series_in \in AllSeries \cup {TwoPoints}
    /\ days_in \in ((0 - 1)..MaxDays) \cup TenDays
    /\ stats = <<>>
    /\ InitNoCache
    /\ seg_in = NoSegment
    /\ seg = <<>>
    /\ pc = "input"
    /\ today = [year |-> FirstYear, month |-> 1]
    /\ asset_sel = "Gold"
    /\ price_lookup = <<>>
    /\ rows = <<>>
    /\ rows_seq = <<>>
    /\ spec_in = GC_SPEC
    /\ horizon = 0
    /\ tickers = Returned(<<>>)
    /\ composed = NoCompose

\* the page computes the statistics of one horizon
WindowStats ==
    /\ pc = "input"
    /\ stats' = window_stats(series_in, days_in)
    /\ pc' = "computed"
    /\ UNCHANGED <<cache_vars, front_vars, today, asset_sel, price_lookup, rows, rows_seq, spec_in, horizon,
                   tickers, composed, today_ts, series_in, days_in,
                   seg_in, seg>>

\* the page script runs again, on the same day or on the next one, and sets
\* the module-level today anew; the cached series and the horizon are the same
Rerun ==
    /\ pc \in {"computed", "encoded"}
    /\ today_ts' \in {t \in Clock : today_ts <= t /\ t <= today_ts + 1}
    /\ pc' = "input"
    /\ UNCHANGED <<cache_vars, front_vars, today, asset_sel, price_lookup, rows, rows_seq, spec_in, horizon,
                   tickers, composed, series_in, days_in, stats,
                   seg_in, seg>>

NextWin == WindowStats \/ Rerun

SpecWin == InitWin /\ [][NextWin]_vars

-----------------------------------------------------------------------------
(* The range segment of the performance page.  The string segment returns  *)
(* is the sequence of its pieces: "N/A" alone, or the formatted minimum, a *)
(* space, the cells of the bar, a space and the formatted maximum.         *)

\* the two glyphs of the bar: "-" stands for U+2500 and "*" for U+25CF
TRACK == "-"
DOT == "*"

\* width: int = 18
DEFAULT_WIDTH == 18

\* x is None or np.isnan(x)
is_undefined(x) == x = None \/ x = NaN

\* "c" * n, the empty string for n <= 0
repeat(c, n) == [i \in 1..n |-> c]

RECURSIVE grouped(_)
\* the digits of n with a comma before every group of three
grouped(n) ==
    IF n < 1000 THEN ToString(n)
    ELSE grouped(n \div 1000) \o "," \o DIGITS[((n \div 100) % 10) + 1]
            \o DIGITS[((n \div 10) % 10) + 1] \o DIGITS[(n % 10) + 1]

\* f"{x:,.2f}" of a price that is a whole number
format_2f(x) == grouped(x) \o ".00"

\* the ratio num / den as it is
no_clamp(num, den) == Quot(num, den)

\* min(max(ratio, 0.0), 1.0) of the ratio num / den, den > 0
clamp(num, den) ==
    IF num < 0 THEN Quot(0, 1)
    ELSE IF num > den THEN Quot(1, 1)
    ELSE Quot(num, den)

\* num / den rounded down, den > 0
floor_div(num, den) == num \div den

\* int(round(num / den)), den > 0: Python rounds a tie to the even neighbour
round(num, den) ==
    LET q == num \div den
        r == num - q * den
    IN  IF 2 * r < den THEN q
        ELSE IF 2 * r > den THEN q + 1
        ELSE IF q % 2 = 0 THEN q ELSE q + 1

\* the same with only the minimum and the maximum looked at for "N/A"
segment_min_max_only(min_px, last_px, max_px, width) ==
    IF is_undefined(min_px) \/ is_undefined(max_px)
    THEN <<"N/A">>
    ELSE IF max_px = min_px
    THEN LET left == width \div 2
             bar  == repeat(TRACK, left) \o <<DOT>> \o repeat(TRACK, width - left)
         IN  <<format_2f(min_px), " ">> \o bar \o <<" ", format_2f(max_px)>>
    ELSE LET ratio   == IF max_px > min_px
                        THEN clamp(last_px - min_px, max_px - min_px)
                        ELSE clamp(min_px - last_px, min_px - max_px)
             dot_idx == round(ratio.num * width, ratio.den)
             bar     == [i \in 1..(width + 1) |-> IF i - 1 = dot_idx THEN DOT ELSE TRACK]
         IN  <<format_2f(min_px), " ">> \o bar \o <<" ", format_2f(max_px)>>

\* the same with the marker of a flat range at the upper middle
segment_upper_middle(min_px, last_px, max_px, width) ==
    IF is_undefined(min_px) \/ is_undefined(last_px) \/ is_undefined(max_px)
    THEN <<"N/A">>
    ELSE IF max_px = min_px
    THEN LET left == (width + 1) \div 2
             bar  == repeat(TRACK, left) \o <<DOT>> \o repeat(TRACK, width - left)
         IN  <<format_2f(min_px), " ">> \o bar \o <<" ", format_2f(max_px)>>
    ELSE LET ratio   == IF max_px > min_px
                        THEN clamp(last_px - min_px, max_px - min_px)
                        ELSE clamp(min_px - last_px, min_px - max_px)
             dot_idx == round(ratio.num * width, ratio.den)
             bar     == [i \in 1..(width + 1) |-> IF i - 1 = dot_idx THEN DOT ELSE TRACK]
         IN  <<format_2f(min_px), " ">> \o bar \o <<" ", format_2f(max_px)>>

segment(min_px, last_px, max_px, width) ==
    IF is_undefined(min_px) \/ is_undefined(last_px) \/ is_undefined(max_px)
    THEN <<"N/A">>
    ELSE IF max_px = min_px
    THEN LET left == width \div 2
             bar  == repeat(TRACK, left) \o <<DOT>> \o repeat(TRACK, width - left)
         IN  <<format_2f(min_px), " ">> \o bar \o <<" ", format_2f(max_px)>>
    ELSE LET ratio   == IF max_px > min_px
                        THEN clamp(last_px - min_px, max_px - min_px)
                        ELSE clamp(min_px - last_px, min_px - max_px)
             dot_idx == round(ratio.num * width, ratio.den)
             bar     == [i \in 1..(width + 1) |-> IF i - 1 = dot_idx THEN DOT ELSE TRACK]
         IN  <<format_2f(min_px), " ">> \o bar \o <<" ", format_2f(max_px)>>

\* widths lie in -1..MaxWidth, and the default width
MaxWidth == 4

\* the prices handed to segment: undefined ones, 0..MaxPx, and 5
SegmentPrices == {None, NaN} \cup (0..MaxPx) \cup {5}
Widths == ((0 - 1)..MaxWidth) \cup {DEFAULT_WIDTH}

InitSeg ==
    /\ seg_in \in [min_px : SegmentPrices, last_px : SegmentPrices,
                    max_px : SegmentPrices, width : Widths]
    /\ seg = <<>>
    /\ pc = "input"
    /\ today_ts \in Clock
    /\ series_in = <<>>
    /\ days_in = 0
    /\ stats = <<>>
    /\ InitNoCache
    /\ today = [year |-> FirstYear, month |-> 1]
    /\ asset_sel = "Gold"
    /\ price_lookup = <<>>
    /\ rows = <<>>
    /\ rows_seq = <<>>
    /\ spec_in = GC_SPEC
    /\ horizon = 0
    /\ tickers = Returned(<<>>)
    /\ composed = NoCompose

\* the page renders one segment
Segment ==
    /\ pc = "input"
    /\ seg' = segment(seg_in.min_px, seg_in.last_px, seg_in.max_px, seg_in.width)
    /\ pc' = "encoded"
    /\ UNCHANGED <<cache_vars, front_vars, today, asset_sel, price_lookup, rows, rows_seq, spec_in, horizon,
                   tickers, composed, today_ts, series_in, days_in, stats, seg_in>>

NextSeg == Segment \/ Rerun

SpecSeg == InitSeg /\ [][NextSeg]_vars

-----------------------------------------------------------------------------
(* The incremental price cache of data_utils.py, for one ticker.  A frame  *)
(* is a sequence of <<timestamp, value>> rows, timestamps in days; the     *)
(* parquet file holds the frame that was written to it.                    *)

\* start="2000-01-01", counted as day 1
DEFAULT_START == 1

\* df.index.max() of a frame with rows
index_max(df) == seq_max([i \in 1..Len(df) |-> df[i][1]])

RECURSIVE keep_first(_)
\* the rows whose timestamp no earlier row has
keep_first(df) ==
    IF Len(df) = 0 THEN <<>>
    ELSE LET n    == Len(df)
             init == keep_first(SubSeq(df, 1, n - 1))
         IN  IF \E j \in 1..(n - 1) : df[j][1] = df[n][1] THEN init
             ELSE Append(init, df[n])

RECURSIVE keep_last(_)
\* df[~df.index.duplicated(keep="last")]: the rows whose timestamp no later
\* row has, in the order of the frame
keep_last(df) ==
    IF Len(df) = 0 THEN <<>>
    ELSE LET rest == keep_last(Tail(df))
         IN  IF \E j \in 2..Len(df) : df[j][1] = df[1][1] THEN rest
             ELSE <<df[1]>> \o rest

\* what yf.download answers: it raises, or it returns a frame
Raises == [raised |-> TRUE, new_data |-> <<>>]
Frame(new_data) == [raised |-> FALSE, new_data |-> new_data]

\* the same with an empty frame returned when the download raises
load_incremental_data_drop_on_error(file, start, end, yf) ==
    LET df       == IF file.exists THEN file.df ELSE <<>>
        start_dl == IF file.exists THEN index_max(file.df) + 1 ELSE start
    IN  IF start_dl <= end
        THEN IF ~yf.raised /\ Len(yf.new_data) # 0
             THEN LET merged == keep_last(df \o yf.new_data)
                  IN  [df       |-> merged,
                       file     |-> [exists |-> TRUE, df |-> merged],
                       download |-> [called |-> TRUE, start |-> start_dl, end |-> end,
                                     outcome |-> "rows"],
                       wrote    |-> TRUE]
             ELSE [df       |-> IF yf.raised THEN <<>> ELSE df,
                   file     |-> file,
                   download |-> [called |-> TRUE, start |-> start_dl, end |-> end,
                                 outcome |-> IF yf.raised THEN "raised" ELSE "empty"],
                   wrote    |-> FALSE]
        ELSE [df |-> df, file |-> file, download |-> NoDownload, wrote |-> FALSE]

\* load_incremental_data(ticker, start, end) with the file of the ticker and
\* the answer yf gives if asked: the frame returned, the file afterwards, the
\* download that was made and whether the file was written
load_incremental_data(file, start, end, yf) ==
    LET df       == IF file.exists THEN file.df ELSE <<>>
        start_dl == IF file.exists THEN index_max(file.df) + 1 ELSE start
    IN  IF start_dl <= end
        THEN IF ~yf.raised /\ Len(yf.new_data) # 0
             THEN LET merged == keep_last(df \o yf.new_data)
                  IN  [df       |-> merged,
                       file     |-> [exists |-> TRUE, df |-> merged],
                       download |-> [called |-> TRUE, start |-> start_dl, end |-> end,
                                     outcome |-> "rows"],
                       wrote    |-> TRUE]
             ELSE [df       |-> df,
                   file     |-> file,
                   download |-> [called |-> TRUE, start |-> start_dl, end |-> end,
                                 outcome |-> IF yf.raised THEN "raised" ELSE "empty"],
                   wrote    |-> FALSE]
        ELSE [df |-> df, file |-> file, download |-> NoDownload, wrote |-> FALSE]

RECURSIVE FramesOver(_)
\* the frames yf.download may return over the days ts: increasing timestamps,
\* each day with a row or without one
FramesOver(ts) ==
    IF ts = {} THEN {<<>>}
    ELSE LET t == CHOOSE x \in ts : \A y \in ts : y <= x
         IN  FramesOver(ts \ {t}) \cup
             {Append(f, <<t, v>>) : f \in FramesOver(ts \ {t}), v \in 1..MaxVal}

\* the answers of the data source: the rows are whatever it holds, inside the
\* requested days or not
Downloads == {Raises} \cup {Frame(f) : f \in FramesOver(CacheDays)}

\* end is a day from the day before DEFAULT_START to the day after the last
Ends == 0..(MaxCacheTs + 1)

\* the values delivered last, after the rows of new_data
Deliver(seen, new_data) ==
    LET row(t) == CHOOSE i \in 1..Len(new_data) : new_data[i][1] = t
        days == {new_data[i][1] : i \in 1..Len(new_data)}
        changed == {t \in days : seen.value[t] # 0 /\ seen.value[t] # new_data[row(t)][2]}
    IN  [value    |-> [t \in CacheDays |->
                          IF t \in days THEN new_data[row(t)][2] ELSE seen.value[t]],
         replaced |-> IF changed = {} THEN 0
                      ELSE CHOOSE t \in changed : \A u \in changed : u <= t]

InitCache ==
    /\ dx_source = <<>>
    /\ dx_front = NotFetched
    /\ cache_file = NoFile
    /\ load = NoLoad
    /\ delivered = NeverDelivered
    /\ pc = "input"
    /\ today_ts = 2
    /\ series_in = <<>>
    /\ days_in = 0
    /\ stats = <<>>
    /\ seg_in = NoSegment
    /\ seg = <<>>
    /\ today = [year |-> FirstYear, month |-> 1]
    /\ asset_sel = "Gold"
    /\ price_lookup = <<>>
    /\ rows = <<>>
    /\ rows_seq = <<>>
    /\ spec_in = GC_SPEC
    /\ horizon = 0
    /\ tickers = Returned(<<>>)
    /\ composed = NoCompose

\* one call of load_incremental_data for the ticker
LoadIncremental ==
    \E end \in Ends, yf \in Downloads :
        LET r == load_incremental_data(cache_file, DEFAULT_START, end, yf)
        IN  /\ cache_file' = r.file
            /\ load' = [end |-> end, download |-> r.download, df |-> r.df,
                        wrote |-> r.wrote]
            /\ delivered' = IF r.download.outcome = "rows"
                            THEN Deliver(delivered, yf.new_data)
                            ELSE delivered
            /\ pc' = "loaded"
            /\ UNCHANGED <<front_vars, today, asset_sel, price_lookup, rows, rows_seq,
                           spec_in, horizon, tickers, composed, today_ts, series_in,
                           days_in, stats, seg_in, seg>>

NextCache == LoadIncremental

SpecCache == InitCache /\ [][NextCache]_vars

-----------------------------------------------------------------------------
(* The front Dollar Index future of the balanced dashboard                 *)
(* (src/balanced_dashboard/pages/Term_Structure_Viewer.py).  A download    *)
(* raises or returns the Close column, a sequence of closes and NaN.       *)

\* MONTH_CODE = {3: "H", 6: "M", 9: "U", 12: "Z"}
DX_MONTH_CODE == [m \in {3, 6, 9, 12} |-> MONTH_CODE[m]]
QUARTERS == <<3, 6, 9, 12>>

\* the symbols tried first, and generate_quarterlies(n=10)
FRONT_SYMBOLS == <<"DX1!.NYB", "DX1!">>
N_QUARTERLIES == 10

\* used_ticker when nothing worked
NoSymbol == "None"

\* str(y % 100).zfill(2)
zfill2(yy) == IF yy < 10 THEN "0" \o ToString(yy) ELSE ToString(yy)

RECURSIVE quarterlies_loop(_, _, _, _)
\* generate_quarterlies: the while loop from (y, m) on
quarterlies_loop(y, m, out, n) ==
    IF Len(out) >= n THEN out
    ELSE LET tkr == "DX" \o DX_MONTH_CODE[m] \o zfill2(y % 100) \o ".NYB"
         IN  IF m = 12 THEN quarterlies_loop(y + 1, 3, Append(out, tkr), n)
             ELSE quarterlies_loop(y, m + 3, Append(out, tkr), n)

generate_quarterlies(n) ==
    LET later == {i \in 1..Len(QUARTERS) : QUARTERS[i] >= today.month}
        start_month == IF later = {} THEN 3
                       ELSE QUARTERS[CHOOSE i \in later : \A j \in later : i <= j]
    IN  quarterlies_loop(today.year, start_month, <<>>, n)

\* s.dropna() of a Close column
dropna_close(s) == SelectSeq(s, LAMBDA x : ~isna(x))

\* what one pass of either loop does with sym: the return value, or nothing
\* when the download raised or left no close
try_symbol(sym) ==
    LET ans == dx_source[sym]
    IN  IF ans.raised THEN <<>>
        ELSE LET srs == dropna_close(ans.close)
             IN  IF Len(srs) # 0 THEN <<[series |-> srs, symbol |-> sym]>> ELSE <<>>

RECURSIVE try_symbols(_, _)
\* a for loop over syms from index i on
try_symbols(syms, i) ==
    IF i > Len(syms) THEN <<>>
    ELSE LET r == try_symbol(syms[i])
         IN  IF Len(r) # 0 THEN r ELSE try_symbols(syms, i + 1)

\* the same with the quarterly contracts tried before the continuous symbols
fetch_front_dollar_fut_quarterly_first ==
    LET r2 == try_symbols(generate_quarterlies(N_QUARTERLIES), 1)
        r1 == try_symbols(FRONT_SYMBOLS, 1)
    IN  IF Len(r2) # 0 THEN r2[1]
        ELSE IF Len(r1) # 0 THEN r1[1]
        ELSE [series |-> <<>>, symbol |-> NoSymbol]

fetch_front_dollar_fut ==
    LET r1 == try_symbols(FRONT_SYMBOLS, 1)
        r2 == try_symbols(generate_quarterlies(N_QUARTERLIES), 1)
    IN  IF Len(r1) # 0 THEN r1[1]
        ELSE IF Len(r2) # 0 THEN r2[1]
        ELSE [series |-> <<>>, symbol |-> NoSymbol]

\* quarterly contracts, counted from the nearest one, the data source may
\* answer for with something else than an empty frame
NDxQuarters == 2

\* the page runs in any month of FirstYear, or late in 2099
FrontTodays == Todays \cup {[year |-> 2099, month |-> 11]}

\* yf.download(sym)["Close"] of the i-th symbol tried: it raises, or it is
\* empty, or all NaN, or a NaN and a close
DxOutcomes == {"raised", "empty", "all NaN", "closes"}

DxAnswer(outcome, i) ==
    [raised |-> outcome = "raised",
     close  |-> IF outcome = "all NaN" THEN <<NaN>>
                ELSE IF outcome = "closes" THEN <<NaN, QuotedPrice(i)>>
                ELSE <<>>]

\* the data source: an outcome for each of the first symbols of syms, counted
\* by position, and an empty frame for the others
DxSource(syms, outcome) ==
    [sym \in {syms[i] : i \in 1..Len(syms)} |->
        IF \E i \in DOMAIN outcome : syms[i] = sym
        THEN LET i == CHOOSE j \in DOMAIN outcome : syms[j] = sym
             IN  DxAnswer(outcome[i], i)
        ELSE DxAnswer("empty", 0)]

InitFront ==
    /\ today \in FrontTodays
    /\ \E syms \in {FRONT_SYMBOLS \o generate_quarterlies(N_QUARTERLIES)},
          outcome \in [1..(Len(FRONT_SYMBOLS) + NDxQuarters) -> DxOutcomes] :
            dx_source = DxSource(syms, outcome)
    /\ dx_front = NotFetched
    /\ pc = "input"
    /\ cache_file = NoFile
    /\ load = NoLoad
    /\ delivered = NeverDelivered
    /\ today_ts = 0
    /\ series_in = <<>>
    /\ days_in = 0
    /\ stats = <<>>
    /\ seg_in = NoSegment
    /\ seg = <<>>
    /\ asset_sel = "US Dollar Index"
    /\ price_lookup = <<>>
    /\ rows = <<>>
    /\ rows_seq = <<>>
    /\ spec_in = DX_SPEC
    /\ horizon = 0
    /\ tickers = Returned(<<>>)
    /\ composed = NoCompose

\* dx_series, dx_symbol = fetch_front_dollar_fut(...)
FetchFront ==
    /\ pc = "input"
    /\ dx_front' = fetch_front_dollar_fut
    /\ pc' = "fetched"
    /\ UNCHANGED <<cache_vars, dx_source, today, asset_sel, price_lookup, rows, rows_seq,
                   spec_in, horizon, tickers, composed, today_ts, series_in, days_in,
                   stats, seg_in, seg>>

NextFront == FetchFront

SpecFront == InitFront /\ [][NextFront]_vars

-----------------------------------------------------------------------------
(* Claims about candidate_tickers and compose_ticker, under SpecEnum *)

\* the suffix variants a spec is configured with, in declaration order
DeclaredVariants(spec) ==
    IF HasKey(spec, "suffixes") THEN spec.suffixes ELSE <<spec.suffix>>

\* position of a suffix in the declaration order
VariantIndex(spec, sfx) ==
    CHOOSE j \in 1..Len(DeclaredVariants(spec)) : DeclaredVariants(spec)[j] = sfx

\* (year, month) a strictly before, or the same as, (year, month) b
MonthBefore(a, b) == a.year < b.year \/ (a.year = b.year /\ a.month < b.month)
SameMonth(a, b) == a.year = b.year /\ a.month = b.month

\* chronological by contract (year, month); within one month in declaration order
ChronologicalByVariant(spec, cands) ==
    \A i \in 1..(Len(cands) - 1) :
        \/ MonthBefore(cands[i], cands[i + 1])
        \/ /\ SameMonth(cands[i], cands[i + 1])
           /\ VariantIndex(spec, cands[i].sfx) < VariantIndex(spec, cands[i + 1].sfx)

NoTickerTwice(cands) ==
    Cardinality({cands[i].tkr : i \in 1..Len(cands)}) = Len(cands)

\* C7 as claimed: for every asset spec and every horizon_months the sequence
\* candidate_tickers returns is chronological by contract month, lists the
\* variants of a month together in declaration order, and holds no ticker twice.
C7_AnyHorizon ==
    (pc = "enumerated" /\ ~tickers.raised) =>
        /\ ChronologicalByVariant(spec_in, tickers.value)
        /\ NoTickerTwice(tickers.value)

\* C7 amended: the order holds for every horizon_months; no ticker string occurs
\* twice for horizon_months up to 1200, the months after which the two-digit
\* year of a ticker repeats.
C7_Ordered ==
    (pc = "enumerated" /\ ~tickers.raised) =>
        /\ ChronologicalByVariant(spec_in, tickers.value)
        /\ horizon <= CenturyMonths => NoTickerTwice(tickers.value)

\* C7 witness: a full century of quarterly contracts in four variants was listed
C7_Witness ==
    /\ pc = "enumerated"
    /\ spec_in = DX_SPEC
    /\ horizon = CenturyMonths
    /\ Len(tickers.value) = 4 * 4 * 100

\* The i-th calendar month from today on (i = 0 is the current month): the year
\* goes up by one at each step from December to January.
CalendarMonth(i) ==
    LET abs == today.year * 12 + (today.month - 1) + i
    IN  [year |-> abs \div 12, month |-> (abs % 12) + 1]

ClaimCodes == <<"F", "G", "H", "J", "K", "M", "N", "Q", "U", "V", "X", "Z">>
ClaimDigit == [d \in 0..9 |-> CHOOSE c \in {"0", "1", "2", "3", "4", "5", "6", "7", "8", "9"} :
                  c = <<"0", "1", "2", "3", "4", "5", "6", "7", "8", "9">>[d + 1]]
\* root + month code + two-digit year (year mod 100, zero-padded) + suffix
ClaimTicker(root, year, month, suffix) ==
    LET two == CHOOSE p \in (0..9) \X (0..9) : 10 * p[1] + p[2] = year % 100
    IN  root \o ClaimCodes[month] \o (ClaimDigit[two[1]] \o ClaimDigit[two[2]]) \o suffix

\* the (year, month, variant) triples C8 asks for
ExpectedContracts(spec, n) ==
    {[year |-> CalendarMonth(i).year, month |-> CalendarMonth(i).month,
      sfx |-> DeclaredVariants(spec)[j]] :
        i \in {k \in 0..(n - 1) : InList(CalendarMonth(k).month, spec.months)},
        j \in 1..Len(DeclaredVariants(spec))}

\* C8: for every asset spec, date and horizon n, candidate_tickers returns
\* exactly the tickers of the n calendar months from the current one on whose
\* month number is valid, one per configured suffix variant, whatever the root.
C8_ExactCandidates ==
    pc = "enumerated" =>
        /\ ~tickers.raised
        /\ {[year |-> c.year, month |-> c.month, sfx |-> c.sfx] :
                c \in {tickers.value[i] : i \in 1..Len(tickers.value)}}
             = ExpectedContracts(spec_in, horizon)
        /\ Len(tickers.value) = Cardinality(ExpectedContracts(spec_in, horizon))
        /\ \A i \in 1..Len(tickers.value) :
              tickers.value[i].tkr =
                  ClaimTicker(spec_in.root, tickers.value[i].year,
                              tickers.value[i].month, tickers.value[i].sfx)

\* C9: the synthesized ticker is root + month code + two-digit year + suffix,
\* and for CL, month 12, year 2025, suffix .NYM it is CLZ25.NYM.
C9_ComposeTicker ==
    pc = "composed" =>
        /\ composed.tkr =
               ClaimTicker(composed.root, composed.year, composed.month, composed.suffix)
        /\ (composed.root = "CL" /\ composed.month = 12 /\ composed.year = 2025
               /\ composed.suffix = ".NYM") => composed.tkr = "CLZ25.NYM"

\* C9 witness: the CLZ25.NYM call was made
C9_Witness ==
    /\ pc = "composed"
    /\ composed.root = "CL" /\ composed.month = 12 /\ composed.year = 2025
    /\ composed.suffix = ".NYM"
    /\ composed.tkr = "CLZ25.NYM"

-----------------------------------------------------------------------------
(* Claims about resolve_contracts, under Spec *)

\* the ticker has data in the lookup: present and not NaN
HasData(lookup, tkr) == tkr \in DOMAIN lookup /\ ~isna(lookup[tkr])

Labels(rs) == [i \in 1..Len(rs) |-> rs[i].Contract]
RowsOf(rs, label) == {rs[i] : i \in {k \in 1..Len(rs) : rs[k].Contract = label}}
BackRows(rs) == SelectSeq(rs, LAMBDA r : r.Contract # "Front")

\* the candidate (ticker with its year, month and suffix) a back row carries
ContractOf(asset, tkr) ==
    LET cands == Candidates(asset)
    IN  cands[CHOOSE i \in 1..Len(cands) : cands[i].tkr = tkr]

\* the candidates that have data, in enumeration order
Priced(asset, lookup) ==
    SelectSeq(Candidates(asset), LAMBDA c : HasData(lookup, c.tkr))

\* at most one suffix variant per contract month among the back rows, and that
\* one the first in declaration order that has data
OneVariantPerMonth(asset, lookup, rs) ==
    /\ \A r1, r2 \in RowsOf(rs, "Back") \cup RowsOf(rs, "Back+1") :
          r1.Ticker # r2.Ticker =>
              ~SameMonth(ContractOf(asset, r1.Ticker), ContractOf(asset, r2.Ticker))
    /\ \A r \in RowsOf(rs, "Back") \cup RowsOf(rs, "Back+1") :
          \A i \in 1..Len(Priced(asset, lookup)) :
              LET c == Priced(asset, lookup)[i]
              IN  SameMonth(c, ContractOf(asset, r.Ticker)) =>
                      VariantIndex(ASSET_SPECS[asset], ContractOf(asset, r.Ticker).sfx)
                          <= VariantIndex(ASSET_SPECS[asset], c.sfx)

\* C1: the accepted back contracts hold at most one suffix variant per contract
\* month, the first in declaration order that has data; no other variant of
\* that month is assigned to Back or Back+1.
C1_OneVariantPerMonth ==
    BatchDone => OneVariantPerMonth(asset_sel, price_lookup, rows)

\* the sequential page keeps to one variant per contract month
SeqOneVariantPerMonth ==
    SeqDone => OneVariantPerMonth(asset_sel, price_lookup, rows_seq)

\* Back's contract month is strictly before Back+1's
BackBeforeBackPlus1(asset, rs) ==
    \A b \in RowsOf(rs, "Back"), b1 \in RowsOf(rs, "Back+1") :
        MonthBefore(ContractOf(asset, b.Ticker), ContractOf(asset, b1.Ticker))

\* the contract months of the candidates, nearest first
ContractMonths(asset) ==
    LET cands == Candidates(asset)
        first == {i \in 1..Len(cands) : i = 1 \/ ~SameMonth(cands[i - 1], cands[i])}
    IN  SelectSeq([i \in 1..Len(cands) |-> [cands[i] EXCEPT !.sfx = (i \in first)]],
                  LAMBDA c : c.sfx)

\* some variant of candidate month m has data
MonthHasData(asset, lookup, m) ==
    \E i \in 1..Len(Priced(asset, lookup)) : SameMonth(Priced(asset, lookup)[i], m)

\* valid months {3,6,9,12}, data for the nearest two of them and for the front symbol
QuarterlyScenario(asset, lookup) ==
    /\ ASSET_SPECS[asset].months = <<3, 6, 9, 12>>
    /\ HasData(lookup, ASSET_SPECS[asset].front_ticker)
    /\ MonthHasData(asset, lookup, ContractMonths(asset)[1])
    /\ MonthHasData(asset, lookup, ContractMonths(asset)[2])

\* C2: when both Back and Back+1 are returned, Back's contract month is
\* strictly earlier than Back+1's; with valid months {3,6,9,12}, data for the
\* nearest two valid months and for the front symbol, the result is exactly
\* Front, Back, Back+1.
C2_BackBeforeBackPlus1 ==
    BatchDone =>
        /\ BackBeforeBackPlus1(asset_sel, rows)
        /\ QuarterlyScenario(asset_sel, price_lookup) =>
               Labels(rows) = <<"Front", "Back", "Back+1">>

SeqBackBeforeBackPlus1 ==
    SeqDone =>
        /\ BackBeforeBackPlus1(asset_sel, rows_seq)
        /\ QuarterlyScenario(asset_sel, price_lookup) =>
               Labels(rows_seq) = <<"Front", "Back", "Back+1">>

Min2(n) == IF n > 2 THEN 2 ELSE n

\* C3: resolve_contracts returns, without raising, a list [Front]? [Back]?
\* [Back+1]?: at most 3 rows, Back+1 only after Back, and as many back rows as
\* there are candidates with data, up to 2, whether or not there is a Front row.
C3_Shape ==
    BatchDone =>
        /\ ~candidate_tickers(ASSET_SPECS[asset_sel], DEFAULT_MAX_MONTHS).raised
        /\ Labels(rows) \in {<<>>, <<"Front">>, <<"Back">>, <<"Front", "Back">>,
                             <<"Back", "Back+1">>, <<"Front", "Back", "Back+1">>}
        /\ Len(BackRows(rows)) = Min2(Len(Priced(asset_sel, price_lookup)))

\* C3 witness: a Front row and both back rows
C3_Witness ==
    /\ BatchDone
    /\ Labels(rows) = <<"Front", "Back", "Back+1">>

\* every row carries a ticker that has data and the lookup's value for it
RowsCarryData(lookup, rs) ==
    \A i \in 1..Len(rs) :
        /\ HasData(lookup, rs[i].Ticker)
        /\ rs[i].Price = lookup[rs[i].Ticker]

\* C4: every returned slot, Front as well as Back and Back+1, carries a ticker
\* that has data in the lookup and the lookup's value, which is not NaN.
C4_RowsCarryData ==
    BatchDone => RowsCarryData(price_lookup, rows)

SeqRowsCarryData ==
    SeqDone => RowsCarryData(price_lookup, rows_seq)

\* Back is the first candidate with data, Back+1 the first candidate of a later
\* month with data
FirstHits(asset, lookup, rs) ==
    LET priced == Priced(asset, lookup)
        later  == SelectSeq(priced, LAMBDA c : MonthBefore(priced[1], c))
    IN  /\ Len(priced) = 0 => BackRows(rs) = <<>>
        /\ Len(priced) > 0 =>
              /\ Len(BackRows(rs)) >= 1
              /\ BackRows(rs)[1].Contract = "Back"
              /\ BackRows(rs)[1].Ticker = priced[1].tkr
              /\ Len(later) = 0 => Len(BackRows(rs)) = 1
              /\ Len(later) > 0 =>
                    /\ Len(BackRows(rs)) = 2
                    /\ BackRows(rs)[2].Contract = "Back+1"
                    /\ BackRows(rs)[2].Ticker = later[1].tkr

\* C5: Back is the first candidate in enumeration order that has a price and
\* Back+1 the first candidate of a later month that has a price; months without
\* data are passed over without using a slot.
C5_FirstHits ==
    BatchDone => FirstHits(asset_sel, price_lookup, rows)

SeqFirstHits ==
    SeqDone => FirstHits(asset_sel, price_lookup, rows_seq)

\* the lookup with a last close for the front symbol
WithFront(asset, lookup) ==
    (ASSET_SPECS[asset].front_ticker :> 100) @@ lookup

\* C6: when the front symbol has no data there is no Front row, and the back
\* rows are those returned when the front symbol has data.
C6_NoFront ==
    (BatchDone /\ ~HasData(price_lookup, ASSET_SPECS[asset_sel].front_ticker)) =>
        /\ RowsOf(rows, "Front") = {}
        /\ BackRows(rows) =
               BackRows(resolve_contracts(asset_sel, WithFront(asset_sel, price_lookup)))

-----------------------------------------------------------------------------
(* Claims about window_stats, under SpecWin *)

\* the entries of the series inside the window of the horizon
InWindow(series, days) ==
    {i \in 1..Len(series) : series[i][1] >= today_ts - days}

AllUndefined(st) ==
    /\ st.start = NaN /\ st.last = NaN /\ isnan(st.ret)
    /\ st.mn = NaN /\ st.mx = NaN /\ isnan(st.ann_vol)

\* C10: for every series, empty or not, and every horizon, when no entry lies
\* inside the window all six outputs are undefined.
C10_EmptyWindow ==
    (pc = "computed" /\ InWindow(series_in, days_in) = {}) => AllUndefined(stats)

\* C10 witness: a series with entries, none of them inside the window
C10_Witness ==
    /\ pc = "computed"
    /\ Len(series_in) > 0
    /\ InWindow(series_in, days_in) = {}
    /\ AllUndefined(stats)

\* the prices of the entries inside the window, in the order of the series
WindowPrices(series, days) ==
    values(SelectSeq(series, LAMBDA e : e[1] >= today_ts - days))

\* C11: when exactly one entry with price p lies inside the window, start,
\* last, minimum and maximum are all p, and the return and the volatility are
\* both undefined, not zero.
C11_SinglePoint ==
    (pc = "computed" /\ Cardinality(InWindow(series_in, days_in)) = 1) =>
        LET p == WindowPrices(series_in, days_in)[1]
        IN  /\ stats.start = p /\ stats.last = p
            /\ stats.mn = p /\ stats.mx = p
            /\ isnan(stats.ret) /\ isnan(stats.ann_vol)

\* C11 witness: a series of several entries, one of them inside the window
C11_Witness ==
    /\ pc = "computed"
    /\ Len(series_in) > 1
    /\ Cardinality(InWindow(series_in, days_in)) = 1
    /\ stats.start = WindowPrices(series_in, days_in)[1]
    /\ stats.start > 0
    /\ isnan(stats.ret)

C13_ZeroStart ==
    (pc = "computed" /\ Cardinality(InWindow(series_in, days_in)) >= 2
        /\ WindowPrices(series_in, days_in)[1] = 0) =>
            /\ DOMAIN stats = {"start", "last", "ret", "mn", "mx", "ann_vol"}
            /\ isnan(stats.ret)
            /\ stats.start = 0
            /\ ~isna(stats.last) /\ ~isna(stats.mn) /\ ~isna(stats.mx)

\* C13 witness: a price of zero followed by a price that is not zero
C13_Witness ==
    /\ pc = "computed"
    /\ Cardinality(InWindow(series_in, days_in)) >= 2
    /\ WindowPrices(series_in, days_in)[1] = 0
    /\ stats.last > 0
    /\ isnan(stats.ret)

\* the product of all prices of w but the last: a common denominator of the
\* period-over-period returns of w
ReturnDen(w) == seq_prod(SubSeq(w, 1, Len(w) - 1))

\* return i of w over that denominator
ReturnNum(w, i) == (w[i + 1] - w[i]) * (ReturnDen(w) \div w[i])

\* the sum of the squared differences of every two returns of w, over the
\* square of the common denominator
PairwiseSquares(w) ==
    LET n == Len(w) - 1
    IN  seq_sum([k \in 1..(n * n) |->
            LET i == ((k - 1) \div n) + 1
                j == ((k - 1) % n) + 1
                d == ReturnNum(w, i) - ReturnNum(w, j)
            IN  IF i < j THEN d * d ELSE 0])

\* q is the sample variance of the n returns of w: the pairwise squared
\* differences divided by n * (n - 1)
IsSampleVariance(q, w) ==
    LET n == Len(w) - 1
    IN  q.num * (n * (n - 1) * ReturnDen(w) * ReturnDen(w)) = q.den * PairwiseSquares(w)

NoZeroBeforeLast(w) == \A i \in 1..(Len(w) - 1) : w[i] # 0

\* C14 as stated: the volatility is undefined with fewer than 3 entries inside
\* the window, and with 3 or more it is a number, the annualised sample
\* (n - 1) standard deviation of the returns.
C14_DefinedFromThree ==
    pc = "computed" =>
        LET w == WindowPrices(series_in, days_in)
        IN  /\ Len(w) < 3 => isnan(stats.ann_vol)
            /\ Len(w) >= 3 =>
                    /\ ~isnan(stats.ann_vol)
                    /\ NoZeroBeforeLast(w) => IsSampleVariance(stats.ann_vol, w)

\* the returns of w that are numbers: those from a price that is not zero
FiniteReturns(w) == {i \in 1..(Len(w) - 1) : w[i] # 0}

\* the returns of w that are infinite: those from zero to a price that is not
InfiniteReturns(w) == {i \in 1..(Len(w) - 1) : w[i] = 0 /\ w[i + 1] # 0}

\* C14 amended: the volatility is undefined exactly when fewer than 2 returns
\* start from a price that is not zero or a price of zero is followed by one
\* that is not zero, which includes every window of fewer than 3 entries; with
\* 3 or more entries of which only the last may be zero it is a number, the
\* annualised sample (n - 1) standard deviation of the returns.
C14_DefinedWithoutZero ==
    pc = "computed" =>
        LET w == WindowPrices(series_in, days_in)
        IN  /\ Len(w) < 3 => isnan(stats.ann_vol)
            /\ isnan(stats.ann_vol) <=>
                    \/ Cardinality(FiniteReturns(w)) < 2
                    \/ InfiniteReturns(w) # {}
            /\ (Len(w) >= 3 /\ NoZeroBeforeLast(w)) =>
                    /\ ~isnan(stats.ann_vol)
                    /\ IsSampleVariance(stats.ann_vol, w)

\* C14 witness: three prices, none of them zero, whose two returns differ
C14_Witness ==
    /\ pc = "computed"
    /\ Len(WindowPrices(series_in, days_in)) = 3
    /\ NoZeroBeforeLast(WindowPrices(series_in, days_in))
    /\ ~isnan(stats.ann_vol)
    /\ stats.ann_vol.num > 0

\* the entry of the series on the boundary of the window, if there is one
OnBoundary(series, days) ==
    {i \in 1..Len(series) : series[i][1] = today_ts - days}

\* C15: the statistics are those of exactly the entries whose timestamp is at
\* least today minus the horizon: start is the price of the earliest of them,
\* an entry on the boundary included; last is the price of the last entry of
\* the series, entries after today included; minimum and maximum range over
\* these entries and no earlier one.
C15_Window ==
    (pc = "computed" /\ InWindow(series_in, days_in) # {}) =>
        LET W     == InWindow(series_in, days_in)
            first == CHOOSE i \in W : \A j \in W : i <= j
        IN  /\ W = {i \in 1..Len(series_in) : i >= first}
            /\ OnBoundary(series_in, days_in) \subseteq {first}
            /\ stats.start = series_in[first][2]
            /\ stats.last = series_in[Len(series_in)][2]
            /\ \E i \in W : stats.mn = series_in[i][2]
            /\ \E i \in W : stats.mx = series_in[i][2]
            /\ \A i \in W : stats.mn <= series_in[i][2] /\ series_in[i][2] <= stats.mx

\* C15 witness: an entry before the boundary with the lowest price, an entry
\* on the boundary, and an entry after today with the highest price
C15_Witness ==
    /\ pc = "computed"
    /\ Len(series_in) = 3
    /\ OnBoundary(series_in, days_in) = {2}
    /\ series_in[3][1] > today_ts
    /\ series_in[1][2] < series_in[2][2] /\ series_in[2][2] < series_in[3][2]
    /\ stats.start = series_in[2][2] /\ stats.mn = series_in[2][2]
    /\ stats.last = series_in[3][2] /\ stats.mx = series_in[3][2]

\* C16: the result of window_stats is decided by its arguments: a call with
\* the series and the horizon of the call before it returns what that call
\* returned, the reference day being among the arguments and not read from
\* the state of the process.
C16_ArgumentsDecide ==
    [][(pc = "input" /\ DOMAIN stats # {} /\ pc' = "computed"
            /\ series_in' = series_in /\ days_in' = days_in)
        => stats' = stats]_vars

-----------------------------------------------------------------------------
(* Claims about segment, under SpecSeg *)

\* the cells of the bar of a segment that is not "N/A"
Bar(sg) == SubSeq(sg, 3, Len(sg) - 2)

\* the indices, counted from 0, of the cells that hold the marker
Markers(sg) == {i \in 0..(Len(Bar(sg)) - 1) : Bar(sg)[i + 1] = DOT}

AnyUndefined(in) ==
    is_undefined(in.min_px) \/ is_undefined(in.last_px) \/ is_undefined(in.max_px)

\* C17: whenever one of minimum, last and maximum is None or NaN the result is
\* "N/A", for every width; when the three are defined the result is never
\* "N/A", and for a width of at least 1 its bar holds one marker.
C17_NotAvailable ==
    pc = "encoded" =>
        /\ AnyUndefined(seg_in) => seg = <<"N/A">>
        /\ ~AnyUndefined(seg_in) =>
                /\ seg # <<"N/A">>
                /\ seg_in.width >= 1 => Cardinality(Markers(seg)) = 1

\* C17 witness: only the last price is undefined
C17_Witness ==
    /\ pc = "encoded"
    /\ seg_in.last_px = NaN
    /\ ~is_undefined(seg_in.min_px) /\ ~is_undefined(seg_in.max_px)
    /\ seg_in.width >= 1
    /\ seg = <<"N/A">>

Defined(in) == ~AnyUndefined(in)

\* C18: for a width of at least 1 and three defined prices with the maximum
\* equal to the minimum, whatever the last price, the bar has width + 1 cells
\* and the marker is at index floor(width / 2); for (5, 5, 5) and width 18 the
\* marker is at index 9.
C18_FlatRange ==
    (pc = "encoded" /\ Defined(seg_in) /\ seg_in.width >= 1
        /\ seg_in.max_px = seg_in.min_px) =>
            /\ Len(Bar(seg)) = seg_in.width + 1
            /\ Markers(seg) = {seg_in.width \div 2}
            /\ (seg_in.min_px = 5 /\ seg_in.last_px = 5 /\ seg_in.width = 18) =>
                    Markers(seg) = {9}

\* C18 witness: (5, 5, 5) and width 18
C18_Witness ==
    /\ pc = "encoded"
    /\ seg_in = [min_px |-> 5, last_px |-> 5, max_px |-> 5, width |-> 18]
    /\ Len(Bar(seg)) = 19
    /\ Markers(seg) = {9}

\* C19: for defined minimum < maximum, a width of at least 1 and any defined
\* last price, the bar has width + 1 cells of which exactly one holds the
\* marker, at an index in 0..width; a last price at or below the minimum puts
\* it at 0 and a last price at or above the maximum at width.
C19_Clamped ==
    (pc = "encoded" /\ Defined(seg_in) /\ seg_in.width >= 1
        /\ seg_in.min_px < seg_in.max_px) =>
            /\ Len(Bar(seg)) = seg_in.width + 1
            /\ Cardinality(Markers(seg)) = 1
            /\ Markers(seg) \subseteq 0..seg_in.width
            /\ seg_in.last_px <= seg_in.min_px => Markers(seg) = {0}
            /\ seg_in.last_px >= seg_in.max_px => Markers(seg) = {seg_in.width}

\* C19 witness: a last price above the maximum, and one below the minimum
C19_Witness ==
    /\ pc = "encoded"
    /\ Defined(seg_in)
    /\ seg_in.min_px < seg_in.max_px
    /\ seg_in.last_px > seg_in.max_px
    /\ seg_in.width > 1
    /\ Markers(seg) = {seg_in.width}

C19_WitnessBelow ==
    /\ pc = "encoded"
    /\ Defined(seg_in)
    /\ seg_in.last_px < seg_in.min_px /\ seg_in.min_px < seg_in.max_px
    /\ seg_in.width > 1
    /\ Markers(seg) = {0}

\* the clamped ratio times the width, as a numerator over max_px - min_px
ScaledNum(in) ==
    IF in.last_px < in.min_px THEN 0
    ELSE IF in.last_px > in.max_px THEN (in.max_px - in.min_px) * in.width
    ELSE (in.last_px - in.min_px) * in.width

\* idx is a whole number nearest to the clamped ratio times the width
Nearest(idx, in) ==
    LET d == in.max_px - in.min_px
        e == idx * d - ScaledNum(in)
    IN  2 * e <= d /\ 0 - d <= 2 * e

NearestIndex ==
    (Defined(seg_in) /\ seg_in.width >= 1 /\ seg_in.min_px < seg_in.max_px) =>
        /\ Markers(seg) # {}
        /\ \A idx \in Markers(seg) : Nearest(idx, seg_in)

\* C20: for defined minimum < maximum and a width of at least 1, every call
\* puts the marker at a whole number nearest to the clamped ratio times the
\* width, and a call with the arguments of the call before it returns what
\* that call returned.
C20_Rounded ==
    [][pc' = "encoded" =>
        /\ NearestIndex'
        /\ (seg # <<>> /\ seg_in' = seg_in) => seg' = seg]_vars

\* C20 witness: the clamped ratio times the width is 1/2, between two whole
\* numbers, and the marker is at 0
C20_Witness ==
    /\ pc = "encoded"
    /\ Defined(seg_in)
    /\ seg_in.min_px < seg_in.max_px
    /\ seg_in.width >= 1
    /\ 2 * ScaledNum(seg_in) = seg_in.max_px - seg_in.min_px
    /\ Markers(seg) = {0}

\* C20 witness: the ratio times the width is 3/4 and the marker is at 1
C20_WitnessUp ==
    /\ pc = "encoded"
    /\ Defined(seg_in)
    /\ seg_in.min_px < seg_in.max_px
    /\ 4 * ScaledNum(seg_in) = 3 * (seg_in.max_px - seg_in.min_px)
    /\ Markers(seg) = {1}

-----------------------------------------------------------------------------
(* Claim about the arguments of window_stats and segment, under SpecWin and *)
(* SpecSeg                                                                 *)

\* st is the six statistics window_stats returns
IsStatistics(st) == DOMAIN st = {"start", "last", "ret", "mn", "mx", "ann_vol"}

\* sg is a string segment returns: "N/A", or a bar between two prices
IsMarkerString(sg) ==
    \/ sg = <<"N/A">>
    \/ Len(sg) >= 4 /\ sg[2] = " " /\ sg[Len(sg) - 1] = " "

\* C21: window_stats called with a horizon of zero or fewer days does not
\* return statistics, and segment called with a width of zero or less does not
\* return a marker string: both reject the call.
C21_Rejected ==
    /\ (pc = "computed" /\ days_in <= 0) => ~IsStatistics(stats)
    /\ (pc = "encoded" /\ seg_in.width <= 0) => ~IsMarkerString(seg)

-----------------------------------------------------------------------------
(* Claims about load_incremental_data, under SpecCache *)

\* no two rows of the frame have the same timestamp
NoDuplicateTimestamps(df) ==
    \A i, j \in 1..Len(df) : i # j => df[i][1] # df[j][1]

\* every row of the frame holds the value delivered last for its timestamp
HoldsLastSeen(df) ==
    \A i \in 1..Len(df) : df[i][2] = delivered.value[df[i][1]]

\* C22: after any sequence of calls the frame returned and the frame in the
\* parquet file have no timestamp twice, and each timestamp holds the value
\* that was delivered for it last, the downloaded one winning over the cached.
C22_LastSeenOnce ==
    /\ NoDuplicateTimestamps(load.df) /\ HoldsLastSeen(load.df)
    /\ NoDuplicateTimestamps(cache_file.df) /\ HoldsLastSeen(cache_file.df)

\* C22 witness: a timestamp delivered a second time with another value, and
\* the file holds the second value
C22_Witness ==
    /\ pc = "loaded"
    /\ load.wrote
    /\ delivered.replaced # 0
    /\ \E i \in 1..Len(cache_file.df) :
            /\ cache_file.df[i][1] = delivered.replaced
            /\ cache_file.df[i][2] = delivered.value[delivered.replaced]

\* the latest timestamp of a frame with rows
LastCachedDate(df) ==
    CHOOSE t \in {df[i][1] : i \in 1..Len(df)} : \A i \in 1..Len(df) : df[i][1] <= t

\* C24: a call whose download raises or returns no rows, and a call that
\* finds the day after the last cached date later than end and downloads
\* nothing, returns the frame of the file as it was and leaves the file as it
\* was, without writing it; a download made while a file exists asks for the
\* days from the day after the last cached date.
C24_CacheKept ==
    [][pc' = "loaded" =>
        /\ load'.download.outcome \in {"raised", "empty", "none"} =>
                /\ load'.df = cache_file.df
                /\ cache_file' = cache_file
                /\ ~load'.wrote
        /\ (cache_file.exists /\ LastCachedDate(cache_file.df) + 1 > load'.end) =>
                /\ ~load'.download.called
                /\ load'.download.outcome = "none"
        /\ (cache_file.exists /\ load'.download.called) =>
                load'.download.start = LastCachedDate(cache_file.df) + 1]_vars

\* C24 witness: a file exists, the download asked for the days after its last
\* date and raised, and the call returned the frame of the file
C24_Witness ==
    /\ pc = "loaded"
    /\ cache_file.exists
    /\ load.download.outcome = "raised"
    /\ load.download.start = LastCachedDate(cache_file.df) + 1
    /\ ~load.wrote
    /\ load.df = cache_file.df

\* C24 witness: a file exists and is up to date, and nothing was downloaded
C24_WitnessUpToDate ==
    /\ pc = "loaded"
    /\ cache_file.exists
    /\ LastCachedDate(cache_file.df) + 1 > load.end
    /\ ~load.download.called
    /\ load.df = cache_file.df

-----------------------------------------------------------------------------
(* Claim about the two resolvers together, under Spec *)

\* the (slot label, ticker, price) of the rows
Triples(rs) == [i \in 1..Len(rs) |-> <<rs[i].Contract, rs[i].Ticker, rs[i].Price>>]

\* every ticker of the dictionary has a price: the dictionary holds p for a
\* ticker exactly when last_close returns p, and lacks it exactly when
\* last_close returns None
SameAvailability == \A t \in DOMAIN price_lookup : ~isna(price_lookup[t])

\* C23: for the same asset, the same date and the same data availability the
\* sequential page and the batch page return the same list of (slot label,
\* ticker, price).
C23_Equivalent ==
    (pc = "both" /\ SameAvailability) => Triples(rows) = Triples(rows_seq)

\* the two pages agree on every asset whose contract months have one ticker
SingleSuffixEquivalent ==
    (pc = "both" /\ SameAvailability /\ ~HasKey(ASSET_SPECS[asset_sel], "suffixes")) =>
        Triples(rows) = Triples(rows_seq)

-----------------------------------------------------------------------------
(* Claim about fetch_front_dollar_fut, under SpecFront                     *)

\* the i-th quarterly contract from today on, i = 0 the nearest: quarters
\* are counted from year 0, four a year
NthQuarterly(i) ==
    LET q  == today.year * 4 + ((today.month + 2) \div 3) - 1 + i
        yy == (q \div 4) % 100
    IN  "DX" \o <<"H", "M", "U", "Z">>[(q % 4) + 1]
             \o DIGITS[(yy \div 10) + 1] \o DIGITS[(yy % 10) + 1] \o ".NYB"

\* the order of the claim: the two continuous symbols, then ten quarterlies
TryOrder == <<"DX1!.NYB", "DX1!">> \o [i \in 1..10 |-> NthQuarterly(i - 1)]

\* the closes a symbol yields: none when its download failed
Yield(sym) ==
    IF dx_source[sym].raised THEN <<>>
    ELSE SelectSeq(dx_source[sym].close, LAMBDA x : x # NaN /\ x # None)

\* C25: fetch_front_dollar_fut tries DX1!.NYB, DX1!, then the quarterly DX
\* contracts from the nearest quarter on, in chronological order and without
\* duplicates; it returns the series and the symbol of the first symbol in
\* that order that yields data, a failed download counting as no data, so a
\* later symbol is returned only when every earlier one yielded nothing; when
\* no symbol yields data it returns an empty series and the symbol None.
C25_FirstWithData ==
    pc = "fetched" =>
        \A order \in {TryOrder} :
            /\ generate_quarterlies(N_QUARTERLIES) = SubSeq(order, 3, Len(order))
            /\ \A i, j \in 1..Len(order) : order[i] = order[j] => i = j
            /\ LET with_data == {i \in 1..Len(order) : Len(Yield(order[i])) > 0}
               IN  IF with_data = {}
                   THEN dx_front = [series |-> <<>>, symbol |-> "None"]
                   ELSE LET first == CHOOSE i \in with_data : \A j \in with_data : i <= j
                        IN  /\ dx_front.symbol = order[first]
                            /\ dx_front.series = Yield(order[first])
                            /\ \A j \in 1..(first - 1) : Len(Yield(order[j])) = 0

\* DX1!.NYB failed, DX1! had only NaN closes, the nearest two quarterlies both
\* have closes: the nearest one is returned
C25_Witness ==
    /\ pc = "fetched"
    /\ dx_source["DX1!.NYB"].raised
    /\ dx_source["DX1!"] = [raised |-> FALSE, close |-> <<NaN>>]
    /\ Len(Yield(NthQuarterly(0))) > 0
    /\ Len(Yield(NthQuarterly(1))) > 0
    /\ dx_front.symbol = NthQuarterly(0)
    /\ Len(dx_front.series) = 1

\* nothing yields data: every symbol was tried and None is returned
C25_WitnessNone ==
    /\ pc = "fetched"
    /\ \A i \in 1..Len(TryOrder) : Len(Yield(TryOrder[i])) = 0
    /\ \E i \in 1..Len(TryOrder) : dx_source[TryOrder[i]].raised
    /\ dx_front.symbol = "None"

\* the run of November 2099: the contracts go over the century
C25_WitnessCentury ==
    /\ pc = "fetched"
    /\ today.year = 2099
    /\ dx_front.symbol = "DXH00.NYB"

=============================================================================
